---- MODULE Spec2Model ----
(***************************************************************************)
(* Model of compile_latex.py: LaTeXCompiler (find_main_tex,                *)
(* clean_aux_files, compile_latex, watch_and_compile) and main.            *)
(*                                                                         *)
(* A file of the document directory is a pair <<stem, suffix>>; a          *)
(* directory is a sequence of path components.  The external tools         *)
(* (pdflatex, bibtex) and the file system are the environment: each        *)
(* subprocess.run ends with a return code or raises, and writes the files  *)
(* the tool writes.                                                        *)
(***************************************************************************)
EXTENDS Naturals, Integers, Sequences, FiniteSets, TLC

VARIABLES
    files,            \* files present in the document directory
    undeletable,      \* files whose unlink() raises PermissionError
    mtime,            \* st_mtime of the document
    cwd,              \* the process's current working directory
    pc,               \* position of the program
    args,             \* parsed command line
    tex_file,         \* main: the document found by find_main_tex
    exit_status,      \* status the process ended with
    printed,          \* notices and diagnostics printed (those the properties are about)
    caller,           \* compile_latex: who called it
    clean_first,      \* compile_latex: parameter
    clean_after,      \* compile_latex: parameter
    original_dir,     \* compile_latex: local
    result1,          \* compile_latex: local
    result_bib,       \* compile_latex: local
    result2,          \* compile_latex: local
    result3,          \* compile_latex: local
    final_result,     \* compile_latex: local
    ret,              \* compile_latex: value returned
    exc,              \* compile_latex: exception propagating out of it
    last_modified,    \* watch_and_compile: local
    current_modified, \* watch_and_compile: local
    calls,            \* history: external tools invoked in the current call
    chdirs,           \* history: directories passed to os.chdir in the current call
    cwd_before,       \* history: cwd when the current call started
    bib_before,       \* history: was there a *.bib file when the call started
    cleaned,          \* history: outcome of each clean_aux_files of the current call
    pdf_checked,      \* history: what pdf_file.exists() answered at line 118
    ncompile,         \* history: number of compile_latex calls started
    snap              \* history: files when the latest clean_aux_files was called

env    == <<files, undeletable, mtime, cwd>>
mainv  == <<pc, args, tex_file, exit_status, printed>>
frame  == <<caller, clean_first, clean_after, original_dir, result1, result_bib,
            result2, result3, final_result, ret, exc>>
watchv == <<last_modified, current_modified>>
hist   == <<calls, chdirs, cwd_before, bib_before, cleaned, pdf_checked, ncompile, snap>>
vars   == <<env, mainv, frame, watchv, hist>>

----------------------------------------------------------------------------
(* Bounds of the model *)

\* the document is modified at most MaxMtime times
MaxMtime == 2

----------------------------------------------------------------------------
(* Paths *)

None == <<>>

\* LaTeXCompiler.__init__: base_dir = Path.cwd()
base_dir == <<"work">>

\* base_dir / target_dir (pathlib drops a "." component)
TargetDir(directory) == IF directory = "." THEN base_dir ELSE Append(base_dir, directory)

\* Path.stem of <<stem, suffix>>
Stem(path) == path[1]

\* Path.with_suffix
WithSuffix(path, suffix) == <<Stem(path), suffix>>

\* Path.exists, for a path of the document directory
Exists(path, fs) == path \in fs

\* Path.glob("*<suffix>"), as the set of its matches
Glob(fs, suffix) == {f \in fs : f[2] = suffix}

\* aux_extensions, in list order
aux_extensions ==
    <<".aux", ".log", ".out", ".toc", ".fdb_latexmk", ".fls", ".synctex.gz", ".bbl", ".blg">>

\* the paths clean_aux_files derives for a document
AuxPaths(tex) == {<<Stem(tex), aux_extensions[i]>> : i \in 1..Len(aux_extensions)}

----------------------------------------------------------------------------
(* find_main_tex: the values it can return (glob order is the file system's) *)

\* a find_main_tex without lines 21-23: main.tex is not preferred
find_main_tex_no_preference(fs) ==
    IF Glob(fs, ".tex") # {} THEN Glob(fs, ".tex") ELSE {None}

find_main_tex(fs) ==
    LET tex_path  == <<"main", ".tex">>
        tex_files == Glob(fs, ".tex")
    IN  IF Exists(tex_path, fs) THEN {tex_path}
        ELSE IF tex_files # {} THEN tex_files
        ELSE {None}

----------------------------------------------------------------------------
(* clean_aux_files: the loop over aux_extensions from index i on.          *)
(* Answers the files left and whether unlink raised.                       *)

RECURSIVE CleanFrom(_, _, _, _)
CleanFrom(i, tex, fs, locked) ==
    IF i > Len(aux_extensions) THEN [files |-> fs, raised |-> FALSE]
    ELSE LET aux_file == <<Stem(tex), aux_extensions[i]>>
         IN  IF Exists(aux_file, fs)
             THEN IF aux_file \in locked
                  THEN [files |-> fs, raised |-> TRUE]
                  ELSE CleanFrom(i + 1, tex, fs \ {aux_file}, locked)
             ELSE CleanFrom(i + 1, tex, fs, locked)

\* a clean_aux_files that stops after the first file it deletes
clean_aux_files_first_only(tex, fs, locked) ==
    LET present == {i \in 1..Len(aux_extensions) : Exists(<<Stem(tex), aux_extensions[i]>>, fs)}
        first   == CHOOSE i \in present : \A k \in present : i <= k
    IN  IF present = {} THEN [files |-> fs, raised |-> FALSE]
        ELSE IF <<Stem(tex), aux_extensions[first]>> \in locked
             THEN [files |-> fs, raised |-> TRUE]
             ELSE [files |-> fs \ {<<Stem(tex), aux_extensions[first]>>}, raised |-> FALSE]

\* a clean_aux_files whose list also holds ".pdf"
clean_aux_files_and_pdf(tex, fs, locked) ==
    LET r == CleanFrom(1, tex, fs, locked)
    IN  IF r.raised THEN r ELSE [r EXCEPT !.files = @ \ {WithSuffix(tex, ".pdf")}]

\* lines 33-42
clean_aux_files(tex, fs, locked) == CleanFrom(1, tex, fs, locked)

----------------------------------------------------------------------------
(* subprocess.run: what a call can end with *)

Completed(code) == [exc |-> "none", returncode |-> code]
Raised(e)       == [exc |-> e, returncode |-> -1]
NoResult        == [exc |-> "unset", returncode |-> -1]

\* exit status 0, a non-zero exit status, the timeout, a missing executable,
\* an executable that cannot be run
RunResults ==
    {Completed(0), Completed(1), Raised("TimeoutExpired"),
     Raised("FileNotFoundError"), Raised("PermissionError")}

\* the process was started
Started(result) == result.exc \in {"none", "TimeoutExpired"}

\* files after a pdflatex run; makes_pdf: the run wrote the PDF
AfterPdflatex(fs, tex, result, makes_pdf) ==
    fs \cup (IF Started(result) THEN {WithSuffix(tex, ".aux"), WithSuffix(tex, ".log")} ELSE {})
       \cup (IF result.exc = "none" /\ makes_pdf THEN {WithSuffix(tex, ".pdf")} ELSE {})

\* files after a bibtex run
AfterBibtex(fs, tex, result) ==
    fs \cup (IF result.exc = "none" THEN {WithSuffix(tex, ".bbl"), WithSuffix(tex, ".blg")} ELSE {})

----------------------------------------------------------------------------
(* compile_latex: its decisions *)

\* line 67 testing for a negative return code only
FirstPassFailedNegative(result) == result.returncode < 0

\* line 67: result1.returncode != 0
FirstPassFailed(result) == result.returncode # 0

\* line 96 testing for a negative return code only
SecondPassFailedNegative(result) == result.returncode < 0

\* line 96: result2.returncode != 0
SecondPassFailed(result) == result.returncode # 0

\* line 83 under a test that makes a bibtex failure fatal
BibFatalOnFailure(result) == result.returncode # 0

\* lines 83-85: a bibtex failure only warns
BibFatal(result) == FALSE

\* line 74 taking the bibliography branch whatever the glob found
HasBibAlways(fs) == TRUE

\* line 73 globbing for "*.bbl"
HasBibWrongSuffix(fs) == Glob(fs, ".bbl") # {}

\* lines 73-74: bib_files
HasBib(fs) == Glob(fs, ".bib") # {}

\* line 118 with "or" for "and"
SucceededEither(result, pdf_exists) == result.returncode = 0 \/ pdf_exists

\* line 118 without the test of the return code
SucceededPdfOnly(result, pdf_exists) == pdf_exists

\* line 118
Succeeded(result, pdf_exists) == result.returncode = 0 /\ pdf_exists

\* lines 136-141 without the TimeoutExpired clause
CaughtNoTimeout(e) == e \in {"FileNotFoundError"}

\* lines 136-141: the except clauses
Caught(e) == e \in {"TimeoutExpired", "FileNotFoundError"}

\* line 143 restoring to the document directory
RestoreDirStay(orig, now) == now

\* line 143: os.chdir(original_dir)
RestoreDir(orig, now) == orig

----------------------------------------------------------------------------
(* The program's inputs *)

TexNames    == {<<"main", ".tex">>, <<"other", ".tex">>}
BibName     == <<"refs", ".bib">>
Directories == {".", "doc"}

\* auxiliary files a previous compilation may have left behind
StaleAux == {{}, {".toc", ".bbl"}, {".aux", ".log", ".out", ".synctex.gz", ".blg"}}

\* suffixes of the files that may be protected against deletion
LockedSuffixes == {".log", ".bbl"}

Bool(b) == IF b THEN "True" ELSE "False"

\* tex_file.parent
Parent == TargetDir(args.directory)

InitEnv ==
    /\ \E texs \in SUBSET TexNames, bib \in BOOLEAN, pdf \in BOOLEAN, stale \in StaleAux :
          files = texs
                  \cup (IF bib THEN {BibName} ELSE {})
                  \cup {WithSuffix(t, ".pdf") : t \in IF pdf THEN texs ELSE {}}
                  \cup {WithSuffix(t, e) : t \in texs, e \in stale}
    /\ undeletable \in {{}} \cup {{<<"main", e>>, <<"other", e>>} : e \in LockedSuffixes}
    /\ mtime = 0
    /\ cwd = base_dir

InitFrame ==
    /\ caller = "none" /\ clean_first = FALSE /\ clean_after = FALSE
    /\ original_dir = None
    /\ result1 = NoResult /\ result_bib = NoResult /\ result2 = NoResult
    /\ result3 = NoResult /\ final_result = NoResult
    /\ ret = "none" /\ exc = "none"
    /\ last_modified = 0 /\ current_modified = 0
    /\ calls = <<>> /\ chdirs = <<>> /\ cwd_before = base_dir /\ bib_before = FALSE
    /\ cleaned = <<>> /\ pdf_checked = "none" /\ ncompile = 0 /\ snap = {}
    /\ printed = <<>>

Init ==
    /\ InitEnv
    /\ InitFrame
    /\ args \in [directory : Directories, clean : BOOLEAN,
                 no_clean_after : BOOLEAN, watch : BOOLEAN]
    /\ pc = "main"
    /\ tex_file = None
    /\ exit_status = -1

----------------------------------------------------------------------------
(* compile_latex *)

\* entering compile_latex(tex_file, clean_first = cf, clean_after = ca)
Call(who, cf, ca) ==
    /\ caller' = who /\ clean_first' = cf /\ clean_after' = ca
    /\ original_dir' = None
    /\ result1' = NoResult /\ result_bib' = NoResult /\ result2' = NoResult
    /\ result3' = NoResult /\ final_result' = NoResult
    /\ ret' = "none" /\ exc' = "none"
    /\ calls' = <<>> /\ chdirs' = <<>> /\ cwd_before' = cwd
    /\ bib_before' = (Glob(files, ".bib") # {})
    /\ cleaned' = <<>> /\ pdf_checked' = "none" /\ ncompile' = ncompile + 1
    /\ pc' = "c_enter"

\* an exception e raised inside the try block (lines 55-143)
Except(e) ==
    /\ IF Caught(e) THEN ret' = "False" /\ exc' = "none"
                    ELSE ret' = "none" /\ exc' = e
    /\ pc' = "c_finally"

\* return False inside the try block
ReturnFalse == ret' = "False" /\ exc' = "none" /\ pc' = "c_finally"

\* lines 46-53: the cleaning before, then os.chdir(tex_file.parent)
C_enter ==
    /\ pc = "c_enter"
    /\ LET pre == clean_aux_files(tex_file, files, undeletable)
       IN  IF clean_first
           THEN /\ files' = pre.files
                /\ cleaned' = Append(cleaned, [at |-> "first", raised |-> pre.raised,
                                                deleted |-> files \ pre.files])
                /\ IF pre.raised
                   THEN /\ exc' = "PermissionError" /\ pc' = "c_return"
                        /\ UNCHANGED <<original_dir, cwd, chdirs>>
                   ELSE /\ original_dir' = cwd /\ cwd' = Parent
                        /\ chdirs' = Append(chdirs, Parent)
                        /\ pc' = "c_pass1" /\ UNCHANGED exc
           ELSE /\ original_dir' = cwd /\ cwd' = Parent
                /\ chdirs' = Append(chdirs, Parent)
                /\ pc' = "c_pass1"
                /\ UNCHANGED <<files, cleaned, exc>>
    /\ UNCHANGED <<undeletable, mtime, args, tex_file, printed, exit_status, caller, clean_first,
                   clean_after, result1, result_bib, result2, result3, final_result, ret,
                   watchv, calls, cwd_before, bib_before, pdf_checked, ncompile, snap>>

\* lines 60-70: the first pdflatex pass
C_pass1 ==
    /\ pc = "c_pass1"
    /\ \E result \in RunResults, makes_pdf \in BOOLEAN :
          /\ calls' = Append(calls, [tool |-> "pdflatex", result |-> result])
          /\ files' = AfterPdflatex(files, tex_file, result, makes_pdf)
          /\ IF result.exc # "none"
             THEN Except(result.exc) /\ UNCHANGED result1
             ELSE /\ result1' = result
                  /\ IF FirstPassFailed(result) THEN ReturnFalse
                     ELSE pc' = "c_scan" /\ UNCHANGED <<ret, exc>>
    /\ UNCHANGED <<undeletable, mtime, cwd, args, tex_file, printed, exit_status, caller, clean_first,
                   clean_after, original_dir, result_bib, result2, result3, final_result,
                   watchv, chdirs, cwd_before, bib_before, cleaned, pdf_checked, ncompile,
                   snap>>

\* lines 73-74 and 111-113: the scan for *.bib
C_scan ==
    /\ pc = "c_scan"
    /\ IF HasBib(files)
       THEN pc' = "c_bibtex" /\ UNCHANGED final_result
       ELSE pc' = "c_check" /\ final_result' = result1
    /\ UNCHANGED <<env, args, tex_file, printed, exit_status, caller, clean_first, clean_after,
                   original_dir, result1, result_bib, result2, result3, ret, exc,
                   watchv, hist>>

\* lines 75-85: bibtex
C_bibtex ==
    /\ pc = "c_bibtex"
    /\ \E result \in RunResults :
          /\ calls' = Append(calls, [tool |-> "bibtex", result |-> result])
          /\ files' = AfterBibtex(files, tex_file, result)
          /\ IF result.exc # "none"
             THEN Except(result.exc) /\ UNCHANGED result_bib
             ELSE /\ result_bib' = result
                  /\ IF BibFatal(result) THEN ReturnFalse
                     ELSE pc' = "c_pass2" /\ UNCHANGED <<ret, exc>>
    /\ UNCHANGED <<undeletable, mtime, cwd, args, tex_file, printed, exit_status, caller, clean_first,
                   clean_after, original_dir, result1, result2, result3, final_result,
                   watchv, chdirs, cwd_before, bib_before, cleaned, pdf_checked, ncompile,
                   snap>>

\* lines 88-99: the second pdflatex pass
C_pass2 ==
    /\ pc = "c_pass2"
    /\ \E result \in RunResults, makes_pdf \in BOOLEAN :
          /\ calls' = Append(calls, [tool |-> "pdflatex", result |-> result])
          /\ files' = AfterPdflatex(files, tex_file, result, makes_pdf)
          /\ IF result.exc # "none"
             THEN Except(result.exc) /\ UNCHANGED result2
             ELSE /\ result2' = result
                  /\ IF SecondPassFailed(result) THEN ReturnFalse
                     ELSE pc' = "c_pass3" /\ UNCHANGED <<ret, exc>>
    /\ UNCHANGED <<undeletable, mtime, cwd, args, tex_file, printed, exit_status, caller, clean_first,
                   clean_after, original_dir, result1, result_bib, result3, final_result,
                   watchv, chdirs, cwd_before, bib_before, cleaned, pdf_checked, ncompile,
                   snap>>

\* lines 102-110: the third pdflatex pass
C_pass3 ==
    /\ pc = "c_pass3"
    /\ \E result \in RunResults, makes_pdf \in BOOLEAN :
          /\ calls' = Append(calls, [tool |-> "pdflatex", result |-> result])
          /\ files' = AfterPdflatex(files, tex_file, result, makes_pdf)
          /\ IF result.exc # "none"
             THEN Except(result.exc) /\ UNCHANGED <<result3, final_result>>
             ELSE /\ result3' = result /\ final_result' = result
                  /\ pc' = "c_check" /\ UNCHANGED <<ret, exc>>
    /\ UNCHANGED <<undeletable, mtime, cwd, args, tex_file, printed, exit_status, caller, clean_first,
                   clean_after, original_dir, result1, result_bib, result2,
                   watchv, chdirs, cwd_before, bib_before, cleaned, pdf_checked, ncompile,
                   snap>>

\* line 127 ignoring clean_after: the cleaning after takes place after every success
C_check_cleans_always ==
    /\ pc = "c_check"
    /\ LET pdf_file == WithSuffix(tex_file, ".pdf")
           post     == clean_aux_files(tex_file, files, undeletable)
       IN  /\ pdf_checked' = Bool(Exists(pdf_file, files))
           /\ IF Succeeded(final_result, Exists(pdf_file, files))
              THEN IF TRUE
                   THEN /\ files' = post.files
                        /\ cleaned' = Append(cleaned, [at |-> "after", raised |-> post.raised,
                                                        deleted |-> files \ post.files])
                        /\ IF post.raised THEN Except("PermissionError")
                           ELSE ret' = "True" /\ pc' = "c_finally" /\ UNCHANGED exc
                   ELSE /\ ret' = "True" /\ pc' = "c_finally"
                        /\ UNCHANGED <<files, cleaned, exc>>
              ELSE ReturnFalse /\ UNCHANGED <<files, cleaned>>
    /\ UNCHANGED <<undeletable, mtime, cwd, args, tex_file, printed, exit_status, caller, clean_first,
                   clean_after, original_dir, result1, result_bib, result2, result3,
                   final_result, watchv, calls, chdirs, cwd_before, bib_before, ncompile,
                   snap>>

\* lines 116-134: the PDF check, and the cleaning after a success
C_check ==
    /\ pc = "c_check"
    /\ LET pdf_file == WithSuffix(tex_file, ".pdf")
           post     == clean_aux_files(tex_file, files, undeletable)
       IN  /\ pdf_checked' = Bool(Exists(pdf_file, files))
           /\ IF Succeeded(final_result, Exists(pdf_file, files))
              THEN IF clean_after
                   THEN /\ files' = post.files
                        /\ cleaned' = Append(cleaned, [at |-> "after", raised |-> post.raised,
                                                        deleted |-> files \ post.files])
                        /\ IF post.raised THEN Except("PermissionError")
                           ELSE ret' = "True" /\ pc' = "c_finally" /\ UNCHANGED exc
                   ELSE /\ ret' = "True" /\ pc' = "c_finally"
                        /\ UNCHANGED <<files, cleaned, exc>>
              ELSE ReturnFalse /\ UNCHANGED <<files, cleaned>>
    /\ UNCHANGED <<undeletable, mtime, cwd, args, tex_file, printed, exit_status, caller, clean_first,
                   clean_after, original_dir, result1, result_bib, result2, result3,
                   final_result, watchv, calls, chdirs, cwd_before, bib_before, ncompile,
                   snap>>

\* lines 142-143: finally
C_finally ==
    /\ pc = "c_finally"
    /\ cwd' = RestoreDir(original_dir, cwd)
    /\ chdirs' = Append(chdirs, RestoreDir(original_dir, cwd))
    /\ pc' = "c_return"
    /\ UNCHANGED <<files, undeletable, mtime, args, tex_file, printed, exit_status, frame, watchv,
                   calls, cwd_before, bib_before, cleaned, pdf_checked, ncompile, snap>>

\* a return to main that exits with status 1 when the initial compilation of
\* --watch returned False
C_return_exit_on_failure ==
    /\ pc = "c_return"
    /\ IF exc # "none"
       THEN pc' = "done" /\ exit_status' = 1
       ELSE CASE caller = "main"       -> /\ pc' = "done"
                                          /\ exit_status' = IF ret = "True" THEN 0 ELSE 1
              [] caller = "main_watch" -> IF ret = "True"
                                          THEN pc' = "w_init" /\ UNCHANGED exit_status
                                          ELSE pc' = "done" /\ exit_status' = 1
              [] caller = "watch"      -> pc' = "w_update" /\ UNCHANGED exit_status
    /\ UNCHANGED <<env, args, tex_file, printed, frame, watchv, hist>>

\* compile_latex has returned ret, or raised exc, to its caller
C_return ==
    /\ pc = "c_return"
    /\ IF exc # "none"
       THEN pc' = "done" /\ exit_status' = 1
       ELSE CASE caller = "main"       -> /\ pc' = "done"
                                          /\ exit_status' = IF ret = "True" THEN 0 ELSE 1
              [] caller = "main_watch" -> pc' = "w_init" /\ UNCHANGED exit_status
              [] caller = "watch"      -> pc' = "w_update" /\ UNCHANGED exit_status
    /\ UNCHANGED <<env, args, tex_file, printed, frame, watchv, hist>>

----------------------------------------------------------------------------
(* watch_and_compile *)

\* line 166 with ">=" for ">"
ModifiedOrSame(current, last) == current >= last

\* line 166: current_modified > last_modified
Modified(current, last) == current > last

\* line 169 with a second tex_file.stat() for current_modified
NewLastRead(current, now) == now

\* line 169: last_modified = current_modified
NewLast(current, now) == current

\* line 168: clean_first=False
WatchCleanFirst == FALSE

\* line 165: tex_file.stat() raises FileNotFoundError when the document is gone;
\* except KeyboardInterrupt (line 171) does not catch it
StatRaises(path, fs) == ~Exists(path, fs)

\* line 161: last_modified = tex_file.stat().st_mtime
W_init ==
    /\ pc = "w_init"
    /\ last_modified' = mtime
    /\ pc' = "w_poll"
    /\ UNCHANGED <<env, args, tex_file, printed, exit_status, frame, current_modified, hist>>

\* lines 165-168: one poll
W_poll ==
    /\ pc = "w_poll"
    /\ IF StatRaises(tex_file, files)
       THEN /\ pc' = "done" /\ exit_status' = 1
            /\ UNCHANGED <<frame, hist, current_modified>>
       ELSE /\ current_modified' = mtime
            /\ IF Modified(mtime, last_modified)
               THEN Call("watch", WatchCleanFirst, ~args.no_clean_after)
               ELSE pc' = "w_sleep" /\ UNCHANGED <<frame, hist>>
            /\ UNCHANGED exit_status
    /\ UNCHANGED <<env, args, tex_file, printed, last_modified, snap>>

\* line 169
W_update ==
    /\ pc = "w_update"
    /\ last_modified' = NewLast(current_modified, mtime)
    /\ pc' = "w_sleep"
    /\ UNCHANGED <<env, args, tex_file, printed, exit_status, frame, current_modified, hist>>

\* line 170: time.sleep(1)
W_sleep ==
    /\ pc = "w_sleep"
    /\ pc' = "w_poll"
    /\ UNCHANGED <<env, args, tex_file, printed, exit_status, frame, watchv, hist>>

\* lines 171-172: KeyboardInterrupt inside the loop
Interrupt ==
    /\ pc \in {"w_poll", "w_update", "w_sleep"}
    /\ pc' = "done"
    /\ exit_status' = 0
    /\ UNCHANGED <<env, args, tex_file, printed, frame, watchv, hist>>

\* the document is saved while the program watches it
Touch ==
    /\ args.watch
    /\ pc \notin {"main", "done"}
    /\ mtime < MaxMtime
    /\ mtime' = mtime + 1
    /\ UNCHANGED <<files, undeletable, cwd, mainv, frame, watchv, hist>>

\* the document is removed, or moved away, while the loop sleeps
Remove ==
    /\ pc = "w_sleep"
    /\ Exists(tex_file, files)
    /\ files' = files \ {tex_file}
    /\ UNCHANGED <<undeletable, mtime, cwd, mainv, frame, watchv, hist>>

----------------------------------------------------------------------------
(* main *)

\* lines 27-28: the notice of find_main_tex when it falls back on another file
fallback_notice(fs, found) ==
    IF ~Exists(<<"main", ".tex">>, fs) /\ Glob(fs, ".tex") # {}
    THEN <<[text |-> "main.tex not found, using", name |-> found]>>
    ELSE <<>>

\* lines 192-194 with sys.exit(0) for sys.exit(1)
Main_find_exit0 ==
    /\ pc = "main"
    /\ \E found \in find_main_tex(files) :
          /\ tex_file' = found
          /\ printed' = printed \o fallback_notice(files, found)
          /\ IF found = None
             THEN pc' = "done" /\ exit_status' = 0
             ELSE pc' = "main_compile" /\ UNCHANGED exit_status
    /\ UNCHANGED <<env, args, frame, watchv, hist>>

\* lines 187-194
Main_find ==
    /\ pc = "main"
    /\ \E found \in find_main_tex(files) :
          /\ tex_file' = found
          /\ printed' = printed \o fallback_notice(files, found)
          /\ IF found = None
             THEN pc' = "done" /\ exit_status' = 1
             ELSE pc' = "main_compile" /\ UNCHANGED exit_status
    /\ UNCHANGED <<env, args, frame, watchv, hist>>

\* lines 196-203: the compilation main asks for
Main_compile ==
    /\ pc = "main_compile"
    /\ Call(IF args.watch THEN "main_watch" ELSE "main", args.clean, ~args.no_clean_after)
    /\ UNCHANGED <<env, args, tex_file, printed, exit_status, watchv, snap>>

Next ==
    \/ Main_find \/ Main_compile
    \/ C_enter \/ C_pass1 \/ C_scan \/ C_bibtex \/ C_pass2 \/ C_pass3
    \/ C_check \/ C_finally \/ C_return
    \/ W_init \/ W_poll \/ W_update \/ W_sleep \/ Interrupt
    \/ Touch \/ Remove

Spec == Init /\ [][Next]_vars

----------------------------------------------------------------------------
(* clean_aux_files on its own: called twice in succession on a directory   *)
(* holding any subset of the auxiliary files of main.tex                   *)

CleanDoc == <<"main", ".tex">>

InitClean ==
    /\ InitFrame
    /\ \E present \in SUBSET AuxPaths(CleanDoc) :
          files = present \cup {CleanDoc, WithSuffix(CleanDoc, ".pdf"), BibName}
    /\ undeletable \in {{}} \cup {{f} : f \in AuxPaths(CleanDoc)}
    /\ mtime = 0
    /\ cwd = base_dir
    /\ args = [directory |-> ".", clean |-> FALSE, no_clean_after |-> FALSE, watch |-> FALSE]
    /\ pc = "t_first"
    /\ tex_file = CleanDoc
    /\ exit_status = -1

\* one call of clean_aux_files(tex_file) from position at; an error ends the sequence
CleanCall(at, next) ==
    /\ pc = at
    /\ LET r == clean_aux_files(tex_file, files, undeletable)
       IN  /\ files' = r.files
           /\ cleaned' = Append(cleaned, [at |-> at, raised |-> r.raised,
                                           deleted |-> files \ r.files])
           /\ snap' = files
           /\ pc' = IF r.raised THEN "t_raised" ELSE next
    /\ UNCHANGED <<undeletable, mtime, cwd, args, tex_file, printed, exit_status, frame, watchv,
                   calls, chdirs, cwd_before, bib_before, pdf_checked, ncompile>>

T_first == CleanCall("t_first", "t_second")

T_second == CleanCall("t_second", "t_done")

NextClean == T_first \/ T_second

SpecClean == InitClean /\ [][NextClean]_vars

----------------------------------------------------------------------------
(* Vocabulary of the properties *)

\* compile_latex has ended and its caller has not yet gone on
Returned == pc = "c_return"

\* the tools invoked in the current call, in order
ToolSeq == [i \in 1..Len(calls) |-> calls[i].tool]

FullSeq == <<"pdflatex", "bibtex", "pdflatex", "pdflatex">>

\* the i-th invocation ran to its end, with exit status 0 / with another one
ExitedZero(i) ==
    i \in 1..Len(calls) /\ calls[i].result.exc = "none" /\ calls[i].result.returncode = 0
ExitedNonZero(i) ==
    i \in 1..Len(calls) /\ calls[i].result.exc = "none" /\ calls[i].result.returncode # 0

\* the i-th invocation timed out or found no executable
TimedOutOrMissing(i) ==
    i \in 1..Len(calls) /\ calls[i].result.exc \in {"TimeoutExpired", "FileNotFoundError"}

\* a clean_aux_files of the current call, at "first" or "after", raised / ran
CleanRaised(at) == \E k \in 1..Len(cleaned) : cleaned[k].at = at /\ cleaned[k].raised
CleanRan(at)    == \E k \in 1..Len(cleaned) : cleaned[k].at = at

\* the output PDF of the document is there
PdfPresent == Exists(WithSuffix(tex_file, ".pdf"), files)

----------------------------------------------------------------------------
(* C1 *)

C1_Witness ==
    Returned /\ bib_before /\ ToolSeq = FullSeq /\ ret = "True"

\* C1 as stated, of the calls that reach the first pass: every call on a directory
\* with a *.bib file invokes pdflatex three times and bibtex once, in the order
\* pdflatex, bibtex, pdflatex, pdflatex.
C1_Original ==
    (Returned /\ bib_before /\ ~CleanRaised("first")) => ToolSeq = FullSeq

\* C1, amended: a call on a directory with a *.bib file invokes the tools in the
\* order pdflatex, bibtex, pdflatex, pdflatex, all four of them unless the
\* sequence is cut short: by the cleaning before raising (no invocation at all),
\* by a non-zero exit of the first or the second pdflatex pass, or by an
\* invocation that raises (timeout, missing tool, other error); the invocation
\* that cut it is the last one.
C1_Sequence ==
    (Returned /\ bib_before) =>
        \/ ToolSeq = FullSeq
        \/ calls = <<>> /\ CleanRaised("first")
        \/ /\ Len(calls) \in {1, 3}
           /\ ToolSeq = SubSeq(FullSeq, 1, Len(calls))
           /\ ExitedNonZero(Len(calls))
        \/ /\ Len(calls) \in 1..3
           /\ ToolSeq = SubSeq(FullSeq, 1, Len(calls))
           /\ calls[Len(calls)].result.exc # "none"

----------------------------------------------------------------------------
(* C2 *)

C2_Witness ==
    Returned /\ ~bib_before /\ ToolSeq = <<"pdflatex">> /\ ExitedZero(1) /\ PdfPresent
             /\ ret = "True"

\* C2 as stated: a call on a directory without a *.bib file invokes pdflatex once
\* and bibtex never, and returns success iff that pass exited 0 and the PDF exists.
C2_Original ==
    (Returned /\ ~bib_before) =>
        /\ ToolSeq = <<"pdflatex">>
        /\ ret = "True" <=> (ExitedZero(1) /\ PdfPresent)

\* C2, amended: a call on a directory without a *.bib file whose cleaning before
\* (if asked for) does not raise invokes pdflatex once and bibtex never; it returns
\* success iff that pass exited 0, the PDF exists and the cleaning after (if asked
\* for) does not raise; when that cleaning raises, the call raises.
C2_NoBib ==
    (Returned /\ ~bib_before /\ ~CleanRaised("first")) =>
        /\ ToolSeq = <<"pdflatex">>
        /\ ret = "True" <=> (ExitedZero(1) /\ PdfPresent /\ ~CleanRaised("after"))
        /\ CleanRaised("after") => (ret = "none" /\ exc = "PermissionError")

----------------------------------------------------------------------------
(* C3 *)

C3_Witness ==
    /\ Returned /\ CleanRaised("after") /\ exc # "none"
    /\ Parent # cwd_before /\ chdirs = <<Parent, cwd_before>> /\ cwd = cwd_before

\* C3 as stated: after any call the working directory is what it was before the
\* call, and it was changed once and restored once in the call.
C3_Original ==
    Returned => (cwd = cwd_before /\ Len(chdirs) = 2)

\* C3, amended: after any call, whatever its outcome, the working directory is
\* what it was before the call; it was changed once (to the document's directory)
\* and restored once, except when the cleaning before raised: then the call ended
\* before changing it at all.
C3_Cwd ==
    Returned =>
        /\ cwd = cwd_before
        /\ IF CleanRaised("first") THEN chdirs = <<>>
                                   ELSE chdirs = <<Parent, cwd_before>>

----------------------------------------------------------------------------
(* C4 *)

C4_Witness ==
    Returned /\ bib_before /\ ExitedNonZero(1) /\ ret = "False"

\* C4: once the first pdflatex pass has exited non-zero, the call fails with that
\* pass its only invocation: no bibtex, no further pdflatex, *.bib file or not.
C4_FirstPassAborts ==
    ExitedNonZero(1) =>
        /\ Len(calls) = 1
        /\ ret = "False" /\ exc = "none"
        /\ pc \notin {"c_scan", "c_bibtex", "c_pass2", "c_pass3", "c_check"}

----------------------------------------------------------------------------
(* C5 *)

BibtexFailed == ExitedNonZero(2) /\ calls[2].tool = "bibtex"

C5_Witness ==
    Returned /\ BibtexFailed /\ ToolSeq = FullSeq /\ ret = "True"

\* C5 as stated: whenever bibtex exits non-zero, the two pdflatex passes after it
\* still run.
C5_Original ==
    (Returned /\ BibtexFailed) => ToolSeq = FullSeq

\* C5, amended: a non-zero exit of bibtex does not end the call: the second
\* pdflatex pass is invoked, and the third one iff the second exits 0; the call
\* returns success iff the third pass exits 0, the PDF exists at the check and the
\* cleaning after (if asked for) does not raise.
C5_BibtexNotFatal ==
    (Returned /\ BibtexFailed) =>
        /\ Len(calls) >= 3
        /\ ToolSeq = SubSeq(FullSeq, 1, Len(calls))
        /\ Len(calls) = 4 <=> ExitedZero(3)
        /\ ret = "True" <=> (ExitedZero(4) /\ pdf_checked = "True" /\ ~CleanRaised("after"))

----------------------------------------------------------------------------
(* C6 *)

C6_Witness ==
    /\ Returned /\ ExitedZero(1) /\ ExitedZero(3) /\ ExitedNonZero(4)
    /\ pdf_checked = "True" /\ ret = "False"

\* C6: a call returns success only if the pdflatex pass executed last exited 0 and
\* the PDF existed at the check; a non-zero exit of the third pass, or a missing
\* PDF at the check, makes it return failure.
C6_SuccessNeedsBoth ==
    Returned =>
        /\ ret = "True" =>
              /\ calls # <<>>
              /\ calls[Len(calls)].tool = "pdflatex"
              /\ ExitedZero(Len(calls))
              /\ pdf_checked = "True"
        /\ ExitedNonZero(4) => ret = "False"
        /\ pdf_checked = "False" => ret = "False"

----------------------------------------------------------------------------
(* C7 *)

C7_Witness ==
    /\ Returned /\ TimedOutOrMissing(2) /\ calls[2].tool = "bibtex"
    /\ Parent # cwd_before /\ clean_after

\* C7: an invocation that times out or finds no executable is the last of its
\* call; no cleaning after takes place, the call returns failure without raising,
\* and the working directory is restored when it has returned.
C7_FatalStops ==
    \A i \in 1..Len(calls) :
        TimedOutOrMissing(i) =>
            /\ i = Len(calls)
            /\ ~CleanRan("after")
            /\ ret = "False" /\ exc = "none"
            /\ pc \notin {"c_scan", "c_bibtex", "c_pass2", "c_pass3", "c_check"}
            /\ Returned => cwd = cwd_before

----------------------------------------------------------------------------
(* C8 *)

C8_Witness ==
    Returned /\ ExitedNonZero(3) /\ PdfPresent /\ clean_after

\* C8: once the second pdflatex pass has exited non-zero, the call fails there:
\* no third pass, no cleaning after.
C8_SecondPassAborts ==
    ExitedNonZero(3) =>
        /\ Len(calls) = 3
        /\ ret = "False" /\ exc = "none"
        /\ ~CleanRan("after")
        /\ pc \notin {"c_pass3", "c_check"}

----------------------------------------------------------------------------
(* C9, under SpecClean *)

AuxLeft == AuxPaths(tex_file) \cap files

C9_Witness ==
    /\ pc = "t_done"
    /\ cleaned[1].deleted # {} /\ cleaned[1].deleted # AuxPaths(tex_file)
    /\ undeletable # {}

\* C9 as stated: whatever auxiliary files are there, one call raises no error and
\* leaves none of the nine paths, and a second call raises no error and changes
\* nothing.
C9_Original ==
    /\ pc # "t_raised"
    /\ pc \in {"t_second", "t_done"} => AuxLeft = {}
    /\ pc = "t_done" => files = snap

\* C9, amended: whatever auxiliary files are there, absent ones are skipped
\* without error; a call in which no deletion fails leaves none of the nine paths,
\* and a second call in succession then raises no error and changes nothing.  A
\* call raises only when the deletion of a file that is there fails, and it then
\* leaves that file.
C9_Idempotent ==
    /\ pc \in {"t_second", "t_done"} =>
          /\ AuxLeft = {}
          /\ ~cleaned[1].raised
    /\ pc = "t_done" =>
          /\ files = snap
          /\ ~cleaned[2].raised /\ cleaned[2].deleted = {}
    /\ pc = "t_raised" =>
          /\ Len(cleaned) = 1
          /\ AuxLeft \cap undeletable # {}

----------------------------------------------------------------------------
(* C10 *)

C10_Witness ==
    /\ pc = "w_sleep" /\ caller = "watch" /\ ncompile = 3
    /\ last_modified = current_modified /\ last_modified > 0

\* C10: a poll starts a recompilation iff the time it reads is greater than the
\* stored one, and then exactly one, with clean_first = False and the clean_after
\* watch_and_compile was given; nothing but a poll starts a recompilation; when
\* the recompilation has returned, the stored time becomes the time that poll
\* read, and nothing else changes the stored time inside the loop.
C10_OnePerIncrease ==
    [][/\ (pc = "w_poll" /\ pc' \notin {"w_poll", "done"}) =>
              IF mtime > last_modified
              THEN /\ pc' = "c_enter" /\ caller' = "watch"
                   /\ ncompile' = ncompile + 1
                   /\ clean_first' = FALSE
                   /\ clean_after' = ~args.no_clean_after
                   /\ current_modified' = mtime
              ELSE /\ pc' = "w_sleep"
                   /\ ncompile' = ncompile
       /\ (ncompile' # ncompile /\ pc # "main_compile") => pc = "w_poll"
       /\ (pc = "c_return" /\ caller = "watch" /\ pc' = "w_update") =>
              UNCHANGED <<last_modified, current_modified>>
       /\ (pc = "w_update" /\ pc' = "w_sleep") => last_modified' = current_modified
       /\ (last_modified' # last_modified) => pc \in {"w_init", "w_update"}
      ]_vars

----------------------------------------------------------------------------
(* C11 *)

\* positions inside the while loop of watch_and_compile, a recompilation included
LoopPcs == {"w_poll", "w_update", "w_sleep"}
CompilePcs ==
    {"c_enter", "c_pass1", "c_scan", "c_bibtex", "c_pass2", "c_pass3", "c_check",
     "c_finally", "c_return"}
InLoop == pc \in LoopPcs \/ (caller = "watch" /\ pc \in CompilePcs)

\* C11: the watch loop ends only by the interruption signal, and then cleanly
\* (the process ends with status 0, nothing raised): no recompilation, whatever
\* its outcome, and no change of the watched document ends it.
C11_OnlyInterruptEnds ==
    [][(InLoop /\ pc' = "done") => (pc \in LoopPcs /\ exit_status' = 0)]_vars

----------------------------------------------------------------------------
(* C12 *)

C12_Witness ==
    pc = "done" /\ ~args.watch /\ ret = "False" /\ calls # <<>> /\ exit_status = 1

\* C12: without --watch the process ends with status 0 iff its one compilation
\* returned success, and with status 1 when no document was found or the
\* compilation failed; it ends at once, with status 1, exactly when there is no
\* .tex file, and then no tool was invoked and no file deleted.
C12_ExitStatus ==
    [][/\ (pc = "main" /\ pc' # "main") =>
              (pc' = "done" <=> Glob(files, ".tex") = {})
       /\ (pc # "done" /\ pc' = "done" /\ ~args.watch) =>
              /\ exit_status' \in {0, 1}
              /\ exit_status' = 0 <=> (pc = "c_return" /\ ret = "True" /\ exc = "none")
              /\ (pc = "c_return" /\ ret = "False") => exit_status' = 1
              /\ pc = "c_return" => ncompile = 1
              /\ pc = "main" =>
                    /\ tex_file' = None /\ exit_status' = 1
                    /\ files' = files
                    /\ ncompile' = 0 /\ calls' = <<>> /\ cleaned' = <<>>
      ]_vars

----------------------------------------------------------------------------
(* C13 *)

\* the auxiliary files of the document that a step deletes
AuxDeleted == AuxPaths(tex_file) \cap (files \ files')

C13_Witness ==
    /\ Returned /\ ret = "True" /\ clean_after /\ AuxLeft = {}
    /\ \E k \in 1..Len(cleaned) : cleaned[k].at = "after" /\ cleaned[k].deleted # {}

\* C13: the cleaning after takes place iff the compilation succeeded (last pass
\* exited 0, PDF there) and clean_after is set, which is --no-clean-after not
\* given; a call that returns success with clean_after leaves no auxiliary file of
\* the document; a call that returns success without clean_after, or returns
\* failure, has deleted no auxiliary file from its first pdflatex invocation on.
C13_CleanAfter ==
    [][/\ pc \in CompilePcs => clean_after = ~args.no_clean_after
       /\ (pc = "c_check" /\ pc' # "c_check") =>
              (cleaned' # cleaned <=>
                  (clean_after /\ final_result.returncode = 0 /\ PdfPresent))
       /\ (pc \in CompilePcs \ {"c_enter"} /\ AuxDeleted # {}) =>
              /\ pc = "c_check"
              /\ clean_after /\ final_result.returncode = 0 /\ PdfPresent
       /\ (Returned /\ ret = "True" /\ clean_after) => AuxLeft = {}
       /\ (Returned /\ (ret = "False" \/ (ret = "True" /\ ~clean_after))) =>
              ~CleanRan("after")
      ]_vars

----------------------------------------------------------------------------
(* find_main_tex on its own: main's first step on any directory content *)

FindNames ==
    {<<"main", ".tex">>, <<"other", ".tex">>, <<"notes", ".tex">>,
     <<"main", ".pdf">>, <<"refs", ".bib">>, <<"other", ".aux">>}

InitFind ==
    /\ InitFrame
    /\ files \in SUBSET FindNames
    /\ undeletable = {}
    /\ mtime = 0
    /\ cwd = base_dir
    /\ args \in [directory : Directories, clean : BOOLEAN,
                 no_clean_after : BOOLEAN, watch : BOOLEAN]
    /\ pc = "main"
    /\ tex_file = None
    /\ exit_status = -1

NextFind == Main_find

SpecFind == InitFind /\ [][NextFind]_vars

----------------------------------------------------------------------------
(* C14, under SpecFind *)

MainTex == <<"main", ".tex">>

C14_Witness ==
    /\ pc = "main_compile" /\ MainTex \notin files
    /\ tex_file = <<"notes", ".tex">> /\ <<"other", ".tex">> \in files
    /\ Len(printed) = 1

\* C14: find_main_tex returns main.tex whenever it is there, whatever other .tex
\* files are; without main.tex and with some .tex file it returns one of them
\* (the first of the directory listing) and prints the fallback notice, which
\* names the file returned; without any .tex file it returns None.  No notice is
\* printed in the first and the last case.
C14_Find ==
    pc # "main" =>
        /\ MainTex \in files => (tex_file = MainTex /\ printed = <<>>)
        /\ (MainTex \notin files /\ Glob(files, ".tex") # {}) =>
              /\ tex_file \in Glob(files, ".tex")
              /\ Len(printed) = 1 /\ printed[1].name = tex_file
        /\ Glob(files, ".tex") = {} => (tex_file = None /\ printed = <<>>)
        /\ tex_file = None <=> pc = "done"

----------------------------------------------------------------------------
(* C15 *)

\* the invocations so far are the start of pdflatex, bibtex, pdflatex, pdflatex;
\* bibtex only after a first pass that exited 0 and only with a *.bib file
PrefixOfFullSeq ==
    /\ Len(calls) <= 4
    /\ ToolSeq = SubSeq(FullSeq, 1, Len(calls))
    /\ Len(calls) >= 2 => (ExitedZero(1) /\ Glob(files, ".bib") # {})
    /\ Cardinality({i \in 1..Len(calls) : calls[i].tool = "pdflatex"}) <= 3
    /\ Cardinality({i \in 1..Len(calls) : calls[i].tool = "bibtex"}) <= 1

C15_Witness ==
    /\ Returned /\ Len(calls) = 3 /\ calls[3].result.exc = "TimeoutExpired"
    /\ ExitedNonZero(2)

\* C15 as stated: in every call the sequence of invocations is a non-empty prefix
\* of pdflatex, bibtex, pdflatex, pdflatex, and just pdflatex without a *.bib file.
C15_Original ==
    Returned => (calls # <<>> /\ PrefixOfFullSeq)

\* C15, amended: in every call, whatever the exit statuses, timeouts or missing
\* tools, the sequence of invocations is a prefix of pdflatex, bibtex, pdflatex,
\* pdflatex (just pdflatex when there is no *.bib file after the first pass):
\* pdflatex at most three times, bibtex at most once and never before a first
\* pass that exited 0, nothing retried.  The prefix is non-empty unless the
\* cleaning before raised, which ends the call before any invocation.
C15_Prefix ==
    /\ PrefixOfFullSeq
    /\ Returned => (calls = <<>> <=> CleanRaised("first"))

----------------------------------------------------------------------------
(* C16 *)

C16_Witness ==
    /\ Returned /\ \E k \in 1..Len(cleaned) : cleaned[k].deleted # {}
    /\ tex_file \in files /\ PdfPresent /\ BibName \in files
    /\ \E f \in files : f[1] # Stem(tex_file) /\ f \in AuxPaths(<<f[1], ".tex">>)

\* C16: a step of the program deletes files only inside clean_aux_files (lines 47
\* and 128), and only paths <stem of the document><ext> with ext one of the nine
\* extensions: the document, its PDF, a *.bib file and the auxiliary files of
\* another stem are never deleted by a compilation or a watch iteration.
C16_OnlyAuxDeleted ==
    [][(pc' # pc /\ files \ files' # {}) =>
          /\ pc \in {"c_enter", "c_check"}
          /\ files \ files' \subseteq AuxPaths(tex_file)
          /\ files \ files' = cleaned'[Len(cleaned')].deleted
      ]_vars

----------------------------------------------------------------------------
(* _show_latex_errors on its own.  A line is a sequence of pieces of text; the *)
(* output of a tool is the sequence of its lines (stdout.split('\n')).         *)

\* the longest stdout tried
MaxLines == 6

\* line 153: error_lines[:5]
MaxShown == 5

Markers == {"!", "Error", "Undefined"}

\* line 152: '!' in line or 'Error' in line or 'Undefined' in line
HasMarker(line) == \E i \in 1..Len(line) : line[i] \in Markers

\* lines 151-152: error_lines
ErrorLines(stdout) == SelectSeq(stdout, HasMarker)

\* a _show_latex_errors that prints every error line
show_latex_errors_all(result) ==
    [i \in 1..Len(result.stderr) |-> [from |-> "stderr", line |-> result.stderr[i]]]
    \o [i \in 1..Len(ErrorLines(result.stdout)) |->
            [from |-> "stdout", line |-> ErrorLines(result.stdout)[i]]]

\* lines 145-154: the lines _show_latex_errors prints
show_latex_errors(result) ==
    LET error_lines == ErrorLines(result.stdout)
        shown       == SubSeq(error_lines, 1,
                              IF Len(error_lines) < MaxShown THEN Len(error_lines)
                                                             ELSE MaxShown)
    IN  [i \in 1..Len(result.stderr) |-> [from |-> "stderr", line |-> result.stderr[i]]]
        \o [i \in 1..Len(shown) |-> [from |-> "stdout", line |-> shown[i]]]

\* lines of the output of pdflatex
OutputLines ==
    {<<"!", " Missing $ inserted.">>, <<"LaTeX ", "Error", ": File not found.">>,
     <<"Undefined", " control sequence.">>, <<"Overfull hbox">>}

StderrTexts ==
    {<<>>, <<<<"kpathsea: Running mktexpk">>>>,
     <<<<"!", " I can't write on file">>, <<"Please type another name">>>>}

RECURSIVE SeqsUpTo(_, _)
SeqsUpTo(S, n) ==
    IF n = 0 THEN {<<>>}
    ELSE LET shorter == SeqsUpTo(S, n - 1)
         IN  shorter \cup {Append(q, x) : q \in {r \in shorter : Len(r) = n - 1}, x \in S}

InitErrors ==
    /\ files = {<<"main", ".tex">>} /\ undeletable = {} /\ mtime = 0 /\ cwd = base_dir
    /\ caller = "none" /\ clean_first = FALSE /\ clean_after = FALSE
    /\ original_dir = None
    /\ result1 = NoResult /\ result_bib = NoResult /\ result2 = NoResult
    /\ result3 = NoResult
    /\ \E out \in SeqsUpTo(OutputLines, MaxLines), err \in StderrTexts :
          final_result = [exc |-> "none", returncode |-> 1, stdout |-> out, stderr |-> err]
    /\ ret = "none" /\ exc = "none"
    /\ last_modified = 0 /\ current_modified = 0
    /\ calls = <<>> /\ chdirs = <<>> /\ cwd_before = base_dir /\ bib_before = FALSE
    /\ cleaned = <<>> /\ pdf_checked = "none" /\ ncompile = 0 /\ snap = {}
    /\ printed = <<>>
    /\ args = [directory |-> ".", clean |-> FALSE, no_clean_after |-> FALSE, watch |-> FALSE]
    /\ pc = "e_show"
    /\ tex_file = <<"main", ".tex">>
    /\ exit_status = -1

\* lines 69, 98, 133: self._show_latex_errors(result)
E_show ==
    /\ pc = "e_show"
    /\ printed' = printed \o show_latex_errors(final_result)
    /\ pc' = "e_done"
    /\ UNCHANGED <<env, args, tex_file, exit_status, frame, watchv, hist>>

NextErrors == E_show

SpecErrors == InitErrors /\ [][NextErrors]_vars

----------------------------------------------------------------------------
(* C17 *)

Shown == pc = "e_done"

\* the positions of the lines of a text that hold a marker
MarkerAt(text) == {i \in 1..Len(text) : HasMarker(text[i])}

\* the position of the j-th line of a text that holds a marker
NthMarker(text, j) ==
    CHOOSE i \in MarkerAt(text) : Cardinality({k \in MarkerAt(text) : k <= i}) = j

FromStdout == SelectSeq(printed, LAMBDA p : p.from = "stdout")
FromStderr == SelectSeq(printed, LAMBDA p : p.from = "stderr")

C17_Witness ==
    /\ Shown
    /\ Cardinality(MarkerAt(final_result.stdout)) > MaxShown
    /\ final_result.stderr # <<>>
    /\ Len(FromStdout) = MaxShown

\* C17 as stated: a failing pass prints at most 5 lines, each of them a line of
\* the engine's output that contains "!", "Error" or "Undefined".
C17_Original ==
    Shown => /\ Len(printed) <= MaxShown
             /\ \A i \in 1..Len(printed) : HasMarker(printed[i].line)

\* C17: the error display prints the whole of the engine's standard error when
\* it is not empty, and after it, from the engine's standard output, the first
\* lines that contain "!", "Error" or "Undefined", in their order, at most 5.
C17_ErrorLines ==
    Shown =>
      LET out == final_result.stdout
          n   == Len(FromStdout)
      IN  /\ printed = FromStderr \o FromStdout
          /\ [i \in 1..Len(FromStderr) |-> FromStderr[i].line] = final_result.stderr
          /\ n <= MaxShown
          /\ n = IF Cardinality(MarkerAt(out)) < MaxShown
                 THEN Cardinality(MarkerAt(out)) ELSE MaxShown
          /\ \A j \in 1..n : /\ FromStdout[j].line = out[NthMarker(out, j)]
                             /\ HasMarker(FromStdout[j].line)

----------------------------------------------------------------------------
(* C18 *)

Recompiling == caller = "watch" /\ pc \in CompilePcs

\* a recompilation is over and the document was modified while it ran, after
\* the poll's read
C18_Witness ==
    /\ pc = "w_update"
    /\ ret = "True"
    /\ current_modified > last_modified
    /\ mtime > current_modified

\* C18: the stored timestamp never decreases; the value stored after a
\* recompilation is the one the poll read before that recompilation started,
\* which the recompilation leaves alone; so when the document is modified while
\* a recompilation is in progress the stored timestamp stays below the
\* document's, and a poll that finds the document's timestamp above the stored
\* one starts a recompilation.
C18_NoLostModification ==
    [][/\ last_modified' >= last_modified
       /\ (pc = "w_poll" /\ pc' = "c_enter") =>
             current_modified' = mtime /\ mtime > last_modified
       /\ Recompiling => current_modified' = current_modified
       /\ (Recompiling \/ pc = "w_update") => current_modified <= mtime
       /\ (pc = "w_update" /\ pc' = "w_sleep") =>
             /\ last_modified' = current_modified
             /\ mtime > current_modified => last_modified' < mtime'
       /\ (pc = "w_poll" /\ pc' \notin {"w_poll", "done"}
             /\ Exists(tex_file, files) /\ mtime > last_modified) =>
             pc' = "c_enter" /\ caller' = "watch"
      ]_vars

----------------------------------------------------------------------------
(* C19 *)

InitialCompilation == caller = "main_watch" /\ pc \in CompilePcs

\* the loop has been entered after an initial compilation that returned False
C19_Witness ==
    /\ pc = "w_poll"
    /\ caller = "main_watch"
    /\ ret = "False"
    /\ ncompile = 1
    /\ exit_status = -1

\* C19, over the steps of the program (the document may be saved meanwhile):
\* with --watch main calls compile_latex once before the loop, with
\* clean_first from --clean and clean_after from --no-clean-after; when that
\* call returns, True or False, the loop is entered and no exit status is set;
\* with --watch status 1 comes only from a missing document or from an
\* exception that is not caught, never from a compilation that returned False.
C19_InitialThenLoop ==
    [][/\ (pc = "main_compile" /\ pc' # pc /\ args.watch) =>
             /\ pc' = "c_enter" /\ caller' = "main_watch"
             /\ clean_first' = args.clean
             /\ clean_after' = ~args.no_clean_after
       /\ InitialCompilation => ncompile = 1
       /\ caller' = "main_watch" => ncompile' <= 1
       /\ (pc = "c_return" /\ pc' # pc /\ caller = "main_watch" /\ exc = "none") =>
             /\ ret \in {"True", "False"}
             /\ pc' = "w_init"
             /\ exit_status' = exit_status
       /\ pc = "w_init" => pc' \in {"w_init", "w_poll"} /\ ncompile = 1
       /\ (args.watch /\ exit_status # 1 /\ exit_status' = 1) =>
             \/ pc = "main" /\ tex_file' = None
             \/ pc = "c_return" /\ exc # "none"
             \/ pc = "w_poll" /\ StatRaises(tex_file, files)
      ]_vars

====
